---- MODULE Spec2Model ----
(***************************************************************************)
(* Range aggregation engine of tiny-calc's micro sheetlet: runFunc, the    *)
(* built-in runners, the aggregation entry points and the Readable read of *)
(* a Range, driven against a grid of cells some of which are still Pending.*)
(***************************************************************************)
EXTENDS Integers, Sequences, FiniteSets, TLC

(* ------------------------------ bounds --------------------------------- *)
\* The grid backing context.read has NumRows rows and NumCols columns.
NumRows == 2
NumCols == 2
\* The formulas of one evaluation session contain at most MaxFormulas
\* different reads of a property of a Range, and the session creates at most
\* MaxFibers Function Fibers.
MaxFormulas == 1
MaxFibers == 2
\* An expression tree the Runtime evaluates has at most MaxOps operations.
MaxOps == 2
\* The sheet of the cell state machine has NumCells cells.
NumCells == 3
\* A TreeShape has at most MaxNodes nodes beside the root and NumConsumers
\* consumers, each opened at most MaxOpens times before it is closed.
MaxNodes == 2
NumConsumers == 2
MaxOpens == 2
\* The host of the tree's writer makes at most MaxCalls calls.
MaxCalls == 5
\* The rows and columns a Reference names are 0 .. MaxCoord.
MaxCoord == 2

(* ------------------------------ values --------------------------------- *)
\* A CalcValue or PendingTask.  kind is typeof for primitives ("number",
\* "string"), "error" for an error object and "Pending" for a PendingTask.
\* A number is the rational n/d in lowest terms (d = 1 for an integer);
\* fiber is the handle of the Function Fiber a Pending carries (0: the
\* Pending comes from a formula cell of the grid).
Num(n) == [kind |-> "number", n |-> n, d |-> 1, s |-> "", fiber |-> 0]
Rat(n, d) == [kind |-> "number", n |-> n, d |-> d, s |-> "", fiber |-> 0]
Str(s) == [kind |-> "string", n |-> 0, d |-> 1, s |-> s, fiber |-> 0]
ErrorValue(name) == [kind |-> "error", n |-> 0, d |-> 1, s |-> name, fiber |-> 0]
PendingTask(f) == [kind |-> "Pending", n |-> 0, d |-> 1, s |-> "", fiber |-> f]
\* A CalcObj of the host (s names its concrete type) and a CalcFun.
Obj(name) == [kind |-> "object", n |-> 0, d |-> 1, s |-> name, fiber |-> 0]
Fun(name) == [kind |-> "function", n |-> 0, d |-> 1, s |-> name, fiber |-> 0]

errors == [div0 |-> ErrorValue("div0"), unknownField |-> ErrorValue("unknownField")]

isPendingTask(content) == content.kind = "Pending"

\* typeof value: objects, error objects and PendingTasks are "object".
typeof(value) ==
    IF value.kind \in {"object", "error", "Pending"} THEN "object" ELSE value.kind

\* value.typeMap(): the TypeNames the object's type map has an entry for.
\* A "record" is Readable, an "opaque" object has an empty type map.
typeMap(value) == IF value.s = "record" THEN {"Readable"} ELSE {}

\* reader.read(value, message, context) of a Readable object of the host:
\* the record answers with the field the message names.
reader(value, message) == Str(value.s \o "." \o message)

\* The resolved values a cell of the grid can hold when its range is
\* aggregated, and when a property of its value is read.
Vals == {Num(-1), Num(2), Str("a")}
CalcValues == {Num(2), Obj("record"), Obj("opaque"), Fun("f")}

Pos == (0 .. NumRows - 1) \X (0 .. NumCols - 1)

(* ------------------------------ ranges --------------------------------- *)
Range(tlRow, tlCol, height, width) ==
    [tlRow |-> tlRow, tlCol |-> tlCol, height |-> height, width |-> width]

\* Every Range that lies inside the grid.
Ranges ==
    {Range(r, c, h, w) : <<r, c, h, w>> \in
        {q \in (0 .. NumRows - 1) \X (0 .. NumCols - 1) \X (1 .. NumRows) \X (1 .. NumCols) :
            q[1] + q[3] <= NumRows /\ q[2] + q[4] <= NumCols}}

FunctionTask == {"sum", "product", "count", "average", "max", "min", "concat"}

makeCacheKey(range, prop) ==
    prop \o ";" \o ToString(range.tlRow) \o ";" \o ToString(range.tlCol)
         \o ";" \o ToString(range.height) \o ";" \o ToString(range.width)

(* ------------------------------ runners -------------------------------- *)
\* runner[0], the accumulator.  total is the number of sum, product, count,
\* max and min and the running total of average; count is the count of
\* average; undef says that the accumulator of max or min is still
\* undefined; str is the string of concat.
Accum(total, count, undef, str) ==
    [total |-> total, count |-> count, undef |-> undef, str |-> str]

createSum(init) == Accum(init, 0, FALSE, "")
createProduct(init) == Accum(init, 0, FALSE, "")
createCount(init) == Accum(init, 0, FALSE, "")
createAverage(total, count) == Accum(total, count, FALSE, "")
\* The runner of max started at 0 instead of undefined.
createMaxZero == Accum(0, 0, FALSE, "")
createMax == Accum(0, 0, TRUE, "")
createMin == Accum(0, 0, TRUE, "")
createConcat(init) == Accum(0, 0, FALSE, init)

\* typeof x === "number"; every number a cell holds is an integer.
IsNumber(x) == x.kind = "number"
IsString(x) == x.kind = "string"

runSum(acc, x) == IF IsNumber(x) THEN [acc EXCEPT !.total = @ + x.n] ELSE acc
runProduct(acc, x) == IF IsNumber(x) THEN [acc EXCEPT !.total = @ * x.n] ELSE acc
\* The step of count without its typeof test: it counts every value.
runCountAny(acc, x) == [acc EXCEPT !.total = @ + 1]
runCount(acc, x) == IF IsNumber(x) THEN [acc EXCEPT !.total = @ + 1] ELSE acc
runAverage(acc, x) ==
    IF IsNumber(x) THEN [acc EXCEPT !.total = @ + x.n, !.count = @ + 1] ELSE acc
runMax(acc, x) ==
    IF IsNumber(x) /\ (acc.undef \/ x.n > acc.total)
    THEN [acc EXCEPT !.total = x.n, !.undef = FALSE] ELSE acc
runMin(acc, x) ==
    IF IsNumber(x) /\ (acc.undef \/ x.n < acc.total)
    THEN [acc EXCEPT !.total = x.n, !.undef = FALSE] ELSE acc
runConcat(acc, x) == IF IsString(x) THEN [acc EXCEPT !.str = @ \o x.s] ELSE acc

\* runner[1] of the runner of a task.
run(task, acc, x) ==
    CASE task = "sum" -> runSum(acc, x)
      [] task = "product" -> runProduct(acc, x)
      [] task = "count" -> runCount(acc, x)
      [] task = "average" -> runAverage(acc, x)
      [] task = "max" -> runMax(acc, x)
      [] task = "min" -> runMin(acc, x)
      [] task = "concat" -> runConcat(acc, x)

Abs(x) == IF x < 0 THEN -x ELSE x

RECURSIVE GCD(_, _)
GCD(a, b) == IF b = 0 THEN a ELSE GCD(b, a % b)

\* total / finalCount of JavaScript for finalCount > 0, as a rational.
Divide(total, finalCount) ==
    LET g == GCD(finalCount, Abs(total))
    IN Rat(total \div g, finalCount \div g)

id(acc) == Num(acc.total)
idString(acc) == Str(acc.str)
fromUndefined(acc) == IF acc.undef THEN Num(0) ELSE Num(acc.total)
\* The finisher of average yielding 0 for an empty count.
finishAverageZero(acc) ==
    IF acc.count = 0 THEN Num(0) ELSE Divide(acc.total, acc.count)
finishAverage(acc) ==
    IF acc.count = 0 THEN errors.div0 ELSE Divide(acc.total, acc.count)

\* runner[2] of the runner of a task.
finish(task, acc) ==
    CASE task \in {"sum", "product", "count"} -> id(acc)
      [] task = "average" -> finishAverage(acc)
      [] task \in {"max", "min"} -> fromUndefined(acc)
      [] task = "concat" -> idString(acc)

\* The runner the aggregation of a task creates for a fresh fiber.
newRunner(task) ==
    CASE task = "sum" -> createSum(0)
      [] task = "product" -> createProduct(1)
      [] task = "count" -> createCount(0)
      [] task = "average" -> createAverage(0, 0)
      [] task = "max" -> createMax
      [] task = "min" -> createMin
      [] task = "concat" -> createConcat("")

(* ------------------------------- state --------------------------------- *)
VARIABLES
    cells,   \* the grid behind context.read: position -> value or Pending
    cache,   \* context.cache: cache key -> final value or Pending
    fibers,  \* the Function Fibers created so far; a fiber's handle is its index
    formulas,\* the reads <<property, range>> the formulas of the session contain
    last,    \* history: what the last call of the engine did
    suspensions, \* history: per fiber, how often runFunc has returned Pending for it
    expr,    \* the expression tree the Runtime evaluates, reduced so far
    invoked, \* history: the calls the Runtime made to operators, readers and functions
    sawDelay,\* history: an operand handed to a Runtime operation was Delay
    sheet,   \* the cells of the sheet: cell id -> ValueCell or FormulaCell
    queue,   \* the recompute queue: the links of its sentinel
    stale,   \* the cells invalidated during their computation in progress or last completed
    owed,    \* history: the cells invalidated since their last evaluation started
    running, \* history: per cell, the number of its evaluations in progress
    shape,   \* TreeShape.shape: index -> index, five fields per node
    handles, \* TreeShape.handles: the allocated nodes
    consumers, \* TreeShape.consumers
    registry,  \* history: per consumer, openTree calls since its last closeTree, and whether it was closed
    moved,   \* history: the last mutation and the nodeMoved callbacks it made
    reference, \* the Reference a formula names
    made,    \* the Range made from it: <<>> until fromReference has run
    lastCall \* history: the last call of the tree's writer, the shape before it, and the calls so far

vars ==
    <<cells, cache, fibers, formulas, last, suspensions, expr, invoked, sawDelay,
      sheet, queue, stale, owed, running,
      shape, handles, consumers, registry, moved, reference, made, lastCall>>

\* The variables of the aggregation engine and those of the Runtime.
engine == <<cells, cache, fibers, formulas, last, suspensions>>
runtime == <<expr, invoked, sawDelay>>
cellsm == <<sheet, queue, stale, owed, running>>
\* The variables beyond the engine, and beyond the engine's own state.
tree == <<shape, handles, consumers, registry, moved>>
refs == <<reference, made>>
asked == <<lastCall>>
beyond == <<runtime, cellsm, tree, refs, asked>>
\* What the actions on one part of the state leave alone (the actions on
\* the tree leave lastCall to the specification that takes them).
offRuntime == <<engine, cellsm, tree, refs, asked>>
offCells == <<engine, runtime, tree, refs, asked>>
offTree == <<engine, runtime, cellsm, refs>>
offRefs == <<engine, runtime, cellsm, tree, asked>>
outside == <<suspensions, beyond>>

undefined == [kind |-> "undefined", n |-> 0, d |-> 1, s |-> "", fiber |-> 0]

\* context.cache[key]
Lookup(c, key) == IF key \in DOMAIN c THEN c[key] ELSE undefined

\* A Function Fiber.  state, range, row, column and runner are its fields
\* (runner stands for runner[0]; the step and the finisher follow from
\* state).  done and visited are history: whether the fold has finished, and
\* the cells handed to the step so far, in order.
makePendingFunction(name, range, row, column, runner) ==
    [state |-> name, range |-> range, row |-> row, column |-> column,
     runner |-> runner, done |-> FALSE, visited |-> <<>>]

\* The scan of runFunc.  A scan state is the fiber, the positions read
\* through context.read in this call, and whether a read was Pending.
Feed(st, content, i, j) ==
    [st EXCEPT !.fiber.runner = run(st.fiber.state, @, content),
               !.fiber.visited = Append(@, <<i, j>>),
               !.reads = Append(@, <<i, j>>)]

\* The first loop saving the range's first column at a Pending cell.
RECURSIVE FinishRowRestart(_, _, _, _)
FinishRowRestart(ctx, st, row, j) ==
    LET endC == st.fiber.range.tlCol + st.fiber.range.width
    IN IF j >= endC THEN st
       ELSE LET content == ctx[<<row, j>>]
            IN IF isPendingTask(content)
               THEN [st EXCEPT !.fiber.column = st.fiber.range.tlCol,
                               !.reads = Append(@, <<row, j>>),
                               !.pending = TRUE]
               ELSE FinishRowRestart(ctx, Feed(st, content, row, j), row, j + 1)

\* The first loop saving the column after the Pending cell.
RECURSIVE FinishRowSkip(_, _, _, _)
FinishRowSkip(ctx, st, row, j) ==
    LET endC == st.fiber.range.tlCol + st.fiber.range.width
    IN IF j >= endC THEN st
       ELSE LET content == ctx[<<row, j>>]
            IN IF isPendingTask(content)
               THEN [st EXCEPT !.fiber.column = j + 1,
                               !.reads = Append(@, <<row, j>>),
                               !.pending = TRUE]
               ELSE FinishRowSkip(ctx, Feed(st, content, row, j), row, j + 1)

\* for (let j = column; j < endC; j += 1): the rest of the fiber's own row.
RECURSIVE FinishRow(_, _, _, _)
FinishRow(ctx, st, row, j) ==
    LET endC == st.fiber.range.tlCol + st.fiber.range.width
    IN IF j >= endC THEN st
       ELSE LET content == ctx[<<row, j>>]
            IN IF isPendingTask(content)
               THEN [st EXCEPT !.fiber.column = j,
                               !.reads = Append(@, <<row, j>>),
                               !.pending = TRUE]
               ELSE FinishRow(ctx, Feed(st, content, row, j), row, j + 1)

\* The inner loop saving the column but not the row of the Pending cell.
RECURSIVE ScanRowColumnOnly(_, _, _, _)
ScanRowColumnOnly(ctx, st, i, j) ==
    LET endC == st.fiber.range.tlCol + st.fiber.range.width
    IN IF j >= endC THEN st
       ELSE LET content == ctx[<<i, j>>]
            IN IF isPendingTask(content)
               THEN [st EXCEPT !.fiber.column = j,
                               !.reads = Append(@, <<i, j>>),
                               !.pending = TRUE]
               ELSE ScanRowColumnOnly(ctx, Feed(st, content, i, j), i, j + 1)

\* for (let j = startCol; j < endC; j += 1) of a later row i.
RECURSIVE ScanRow(_, _, _, _)
ScanRow(ctx, st, i, j) ==
    LET endC == st.fiber.range.tlCol + st.fiber.range.width
    IN IF j >= endC THEN st
       ELSE LET content == ctx[<<i, j>>]
            IN IF isPendingTask(content)
               THEN [st EXCEPT !.fiber.row = i,
                               !.fiber.column = j,
                               !.reads = Append(@, <<i, j>>),
                               !.pending = TRUE]
               ELSE ScanRow(ctx, Feed(st, content, i, j), i, j + 1)

\* Later rows started at the saved column instead of the range's first.
startColSaved(fiber) == fiber.column

\* The column at which the scan of a row after the fiber's own row starts.
startCol(fiber) == fiber.range.tlCol

\* for (let i = row + 1; i < endR; i += 1)
RECURSIVE ScanRows(_, _, _)
ScanRows(ctx, st, i) ==
    LET endR == st.fiber.range.tlRow + st.fiber.range.height
    IN IF i >= endR THEN st
       ELSE LET after == ScanRow(ctx, st, i, startCol(st.fiber))
            IN IF after.pending THEN after ELSE ScanRows(ctx, after, i + 1)

\* runFunc finishing the fiber's row from the range's first column instead
\* of the saved column.
runFuncRowStart(ctx, fiber, handle) ==
    LET st0 == [fiber |-> fiber, reads |-> <<>>, pending |-> FALSE]
        st1 == FinishRow(ctx, st0, fiber.row, fiber.range.tlCol)
        st2 == IF st1.pending THEN st1 ELSE ScanRows(ctx, st1, fiber.row + 1)
    IN IF st2.pending
       THEN [fiber |-> st2.fiber, reads |-> st2.reads, ret |-> PendingTask(handle)]
       ELSE [fiber |-> [st2.fiber EXCEPT !.done = TRUE], reads |-> st2.reads,
             ret |-> finish(fiber.state, st2.fiber.runner)]

\* runFunc(fiber): the fiber after the call, the value returned and stored
\* in the cache, and the positions read.
runFunc(ctx, fiber, handle) ==
    LET st0 == [fiber |-> fiber, reads |-> <<>>, pending |-> FALSE]
        st1 == FinishRow(ctx, st0, fiber.row, fiber.column)
        st2 == IF st1.pending THEN st1 ELSE ScanRows(ctx, st1, fiber.row + 1)
    IN IF st2.pending
       THEN [fiber |-> st2.fiber, reads |-> st2.reads, ret |-> PendingTask(handle)]
       ELSE [fiber |-> [st2.fiber EXCEPT !.done = TRUE], reads |-> st2.reads,
             ret |-> finish(fiber.state, st2.fiber.runner)]

\* context.cache[makeCacheKey(range, fiber.state)] = ...
Store(c, fiber, value) == (makeCacheKey(fiber.range, fiber.state) :> value) @@ c

\* The aggregations table: property name -> the task of the aggregation.
aggregations ==
    [sum |-> "sum", product |-> "product", count |-> "count", average |-> "average",
     max |-> "max", min |-> "min", concat |-> "concat",
     SUM |-> "sum", PRODUCT |-> "product", COUNT |-> "count", AVERAGE |-> "average",
     MAX |-> "max", MIN |-> "min", CONCAT |-> "concat"]

\* The properties the formulas read on a Range, and the two spellings under
\* which a formula can name a property ("other" is a name the Range does
\* not know).
Properties == FunctionTask \cup {"row", "column", "other"}
upper ==
    [sum |-> "SUM", product |-> "PRODUCT", count |-> "COUNT", average |-> "AVERAGE",
     max |-> "MAX", min |-> "MIN", concat |-> "CONCAT", row |-> "ROW",
     column |-> "COLUMN"]
Spellings(property) ==
    IF property \in DOMAIN upper THEN {property, upper[property]} ELSE {property}

\* last: the call, the property it was about, what it returned, the
\* positions read through context.read, the fiber run (0: none), whether
\* the fiber was fresh, the cache entry of the property and range before
\* the call, the cursor the fiber started at, and the reads delegated to
\* the reader of an object, each <<object, message>>.
NoCall ==
    [call |-> "none", property |-> "", ret |-> undefined, reads |-> <<>>, fiber |-> 0,
     fresh |-> FALSE, prior |-> undefined, cursor |-> <<0, 0>>, delegated |-> <<>>]

\* The positions of a range, and those the formulas of the session cover.
Positions(range) ==
    (range.tlRow .. range.tlRow + range.height - 1)
        \X (range.tlCol .. range.tlCol + range.width - 1)
Covered == UNION {Positions(f[2]) : f \in formulas}

\* The subsets of S of at most n elements.
RECURSIVE SetsUpTo(_, _)
SetsUpTo(S, n) ==
    IF n = 0 THEN {{}}
    ELSE LET smaller == SetsUpTo(S, n - 1)
         IN smaller \cup {T \cup {x} : T \in smaller, x \in S}

(* ------------------------- Evaluation Runtime -------------------------- *)
\* The Delay marker of the Runtime is Pending.
Bool(b) == [kind |-> "boolean", n |-> IF b THEN 1 ELSE 0, d |-> 1, s |-> "", fiber |-> 0]
Delay == PendingTask(0)
isDelayed(v) == v.kind = "Pending"

\* An expression tree: a leaf holds a value or Delay, a node applies one
\* Runtime operation to its argument trees.
Leaf(v) == [op |-> "leaf", val |-> v, args |-> <<>>]
Node(op, args) == [op |-> op, val |-> undefined, args |-> args]

\* What a Runtime operation yields, and the calls it made on the way, each
\* <<what was called, its operands>>.
Outcome(value, calls) == [value |-> value, calls |-> calls]

\* The typed operators of the trees: negate (unary) and plus (binary) on
\* numbers; blame yields a value-level error.
check(value) == value.kind = "number"
blame(value) == ErrorValue("type")
negate(value) == Num(-value.n)
plus(value1, value2) == Num(value1.n + value2.n)
\* The function of the trees answers with its first argument.
invoke(fn, args) == IF args = <<>> THEN Num(0) ELSE args[1]
\* The fallback the trees pass to read and appN.
fallback == Str("fallback")

\* read(context, receiver, prop, fallback)
RuntimeRead(receiver, prop, fb) ==
    IF isDelayed(receiver) THEN Outcome(receiver, {})
    ELSE IF typeof(receiver) = "object" /\ "Readable" \in typeMap(receiver)
    THEN Outcome(reader(receiver, prop), {<<"reader", <<receiver>> >>})
    ELSE Outcome(fb, {})

\* ifS(cond, cont): the continuation picks the branch tree to evaluate next.
ifS(cond, then, else) ==
    IF isDelayed(cond) THEN Outcome(Leaf(cond), {})
    ELSE Outcome(IF cond = Bool(TRUE) THEN then ELSE else, {<<"cont", <<cond>> >>})

\* app1(context, op, expr)
app1(operand) ==
    IF isDelayed(operand) THEN Outcome(operand, {})
    ELSE IF check(operand)
    THEN Outcome(negate(operand), {<<"check", <<operand>> >>, <<"fn", <<operand>> >>})
    ELSE Outcome(blame(operand), {<<"check", <<operand>> >>, <<"blame", <<operand>> >>})

\* app2(context, op, l, r)
app2(l, r) ==
    IF isDelayed(l) THEN Outcome(l, {})
    ELSE IF isDelayed(r) THEN Outcome(r, {})
    ELSE IF ~check(l)
    THEN Outcome(blame(l), {<<"check", <<l>> >>, <<"blame", <<l>> >>})
    ELSE IF ~check(r)
    THEN Outcome(blame(r), {<<"check", <<l>> >>, <<"check", <<r>> >>, <<"blame", <<r>> >>})
    ELSE Outcome(plus(l, r), {<<"check", <<l>> >>, <<"check", <<r>> >>, <<"fn", <<l, r>> >>})

\* appN answering a callee that is no function before looking at the
\* arguments.
appNCalleeFirst(fn, args, fb) ==
    IF isDelayed(fn) THEN Outcome(fn, {})
    ELSE IF fn.kind # "function" THEN Outcome(fb, {})
    ELSE IF \E i \in 1 .. Len(args) : isDelayed(args[i]) THEN Outcome(Delay, {})
    ELSE Outcome(invoke(fn, args), {<<"function", <<fn>> \o args>>})

\* appN(context, fn, args, fallback)
appN(fn, args, fb) ==
    IF isDelayed(fn) THEN Outcome(fn, {})
    ELSE IF \E i \in 1 .. Len(args) : isDelayed(args[i])
    THEN Outcome(args[CHOOSE i \in 1 .. Len(args) :
                        isDelayed(args[i]) /\ \A j \in 1 .. i - 1 : ~isDelayed(args[j])], {})
    ELSE IF fn.kind = "function"
    THEN Outcome(invoke(fn, args), {<<"function", <<fn>> \o args>>})
    ELSE Outcome(fb, {})

\* The trees with exactly n operations.  The condition of an ifS is a
\* boolean leaf or Delay; appN has a callee and two arguments.
LeafValues == {Num(2), Fun("f"), Obj("record"), Delay}
Conditions == {Leaf(Bool(TRUE)), Leaf(Bool(FALSE)), Leaf(Delay)}
RECURSIVE TreesOf(_)
TreesOf(n) ==
    IF n = 0 THEN {Leaf(v) : v \in LeafValues}
    ELSE LET sub == [k \in 0 .. n - 1 |-> TreesOf(k)]
             Pairs == {<<a, b>> \in (0 .. n - 1) \X (0 .. n - 1) : a + b = n - 1}
             Triples ==
                {<<a, b, c>> \in (0 .. n - 1) \X (0 .. n - 1) \X (0 .. n - 1) :
                    a + b + c = n - 1}
         IN UNION {
              {Node("read", <<a>>) : a \in sub[n - 1]},
              {Node("app1", <<a>>) : a \in sub[n - 1]},
              UNION {{Node("app2", <<a, b>>) : a \in sub[q[1]], b \in sub[q[2]]} :
                        q \in Pairs},
              UNION {{Node("ifS", <<c, a, b>>) :
                            c \in Conditions, a \in sub[q[1]], b \in sub[q[2]]} :
                        q \in Pairs},
              UNION {{Node("appN", <<a, b, c>>) :
                            a \in sub[q[1]], b \in sub[q[2]], c \in sub[q[3]]} :
                        q \in Triples}}
Trees == UNION {TreesOf(n) : n \in 0 .. MaxOps}

\* One Runtime operation applied to a node whose operands are evaluated:
\* the tree that replaces the node, the calls made, and whether an operand
\* was Delay.
Operands(t) == [i \in 1 .. Len(t.args) |-> t.args[i].val]
Reduce(t) ==
    LET x == Operands(t)
        o == CASE t.op = "read" -> RuntimeRead(x[1], "other", fallback)
               [] t.op = "app1" -> app1(x[1])
               [] t.op = "app2" -> app2(x[1], x[2])
               [] t.op = "appN" -> appN(x[1], <<x[2], x[3]>>, fallback)
               [] t.op = "ifS" -> ifS(x[1], t.args[2], t.args[3])
    IN [tree |-> IF t.op = "ifS" THEN o.value ELSE Leaf(o.value),
        calls |-> o.calls,
        delayed |-> IF t.op = "ifS" THEN isDelayed(x[1])
                    ELSE \E i \in 1 .. Len(x) : isDelayed(x[i]),
        op |-> t.op]

\* The next step of the evaluation of a tree that is not a leaf: operands
\* are evaluated from left to right before their operation is applied; the
\* branches of an ifS are evaluated only once its continuation chose one.
RECURSIVE Step(_)
Step(t) ==
    IF t.op = "ifS" \/ \A i \in 1 .. Len(t.args) : t.args[i].op = "leaf"
    THEN Reduce(t)
    ELSE LET i == CHOOSE k \in 1 .. Len(t.args) :
                    /\ t.args[k].op # "leaf"
                    /\ \A j \in 1 .. k - 1 : t.args[j].op = "leaf"
             s == Step(t.args[i])
         IN [s EXCEPT !.tree = [t EXCEPT !.args[i] = s.tree]]

RuntimeIdle ==
    /\ expr = Leaf(undefined)
    /\ invoked = {}
    /\ sawDelay = FALSE

(* ------------------------- Cell State Machine -------------------------- *)
CalcFlag == [Clean |-> 0, Dirty |-> 1, Enqueued |-> 2, InCalc |-> 3]

\* prev and next of a cell: undefined, the queue's sentinel, or a cell id.
NoCell == -1
Sentinel == 0
CellIds == 1 .. NumCells

ValueCell(content) ==
    [type |-> "value", flag |-> CalcFlag.Clean, content |-> content,
     prev |-> NoCell, next |-> NoCell]
FormulaCell(flag, prev, next) ==
    [type |-> "formula", flag |-> flag, content |-> 0, prev |-> prev, next |-> next]

IsFormula(c) == sheet[c].type = "formula"
HasFlag(c, flag) == IsFormula(c) /\ sheet[c].flag = flag

\* The sheet with cell c unlinked from the queue (its neighbours joined, its
\* own links cleared) and given the flag, and the sentinel after that.
Unlinked(c, flag) ==
    LET p == sheet[c].prev
        n == sheet[c].next
    IN [cell \in CellIds |->
          IF cell = c THEN FormulaCell(flag, NoCell, NoCell)
          ELSE [sheet[cell] EXCEPT !.next = IF cell = p THEN n ELSE @,
                                 !.prev = IF cell = n THEN p ELSE @]]
UnlinkedQueue(c) ==
    [next |-> IF sheet[c].prev = Sentinel THEN sheet[c].next ELSE queue.next,
     prev |-> IF sheet[c].next = Sentinel THEN sheet[c].prev ELSE queue.prev]

CellIdle ==
    /\ sheet = [c \in CellIds |-> ValueCell(0)]
    /\ queue = [next |-> Sentinel, prev |-> Sentinel]
    /\ stale = {}
    /\ owed = {}
    /\ running = [c \in CellIds |-> 0]

(* ------------------------------ TreeShape ------------------------------ *)
ShapeFieldOffset ==
    [parent |-> 0, firstChild |-> 1, nextSibling |-> 2, lastChild |-> 3,
     prevSibling |-> 4, fieldCount |-> 5]
TreeNode == [none |-> -1, root |-> 0]
TreeNodeIndex == [none |-> TreeNode.none * ShapeFieldOffset.fieldCount]

toIndex(node) == node * ShapeFieldOffset.fieldCount
toNode(index) == index \div ShapeFieldOffset.fieldCount

\* What reading an element the array does not have yields: equal to no index.
Hole == -2
getField(s, node, offset) ==
    IF node + offset \in DOMAIN s THEN s[node + offset] ELSE Hole
setField(s, node, offset, value) ==
    [i \in DOMAIN s \cup {node + offset} |-> IF i = node + offset THEN value ELSE s[i]]

afterNode(node) == node
firstChildOf(parent) == -parent
beforeNode(s, node) ==
    LET prev == toNode(getField(s, toIndex(node), ShapeFieldOffset.prevSibling))
    IN IF prev = TreeNode.none
       THEN firstChildOf(toNode(getField(s, toIndex(node), ShapeFieldOffset.parent)))
       ELSE afterNode(prev)
lastChildOf(s, parent) ==
    LET oldLast == toNode(getField(s, toIndex(parent), ShapeFieldOffset.lastChild))
    IN IF oldLast = TreeNode.none THEN firstChildOf(parent) ELSE oldLast

\* The shape without the node at index `node` in its parent's child list,
\* and the location the node had.
unlink(s, node) ==
    LET oldParent == getField(s, node, ShapeFieldOffset.parent)
        oldNext == getField(s, node, ShapeFieldOffset.nextSibling)
        oldPrev == getField(s, node, ShapeFieldOffset.prevSibling)
        s1 == IF getField(s, oldParent, ShapeFieldOffset.firstChild) = node
              THEN setField(s, oldParent, ShapeFieldOffset.firstChild, oldNext) ELSE s
        s2 == IF getField(s1, oldParent, ShapeFieldOffset.lastChild) = node
              THEN setField(s1, oldParent, ShapeFieldOffset.lastChild, oldPrev) ELSE s1
        s3 == IF oldNext # TreeNodeIndex.none
              THEN setField(s2, oldNext, ShapeFieldOffset.prevSibling, oldPrev) ELSE s2
    IN IF oldPrev = TreeNodeIndex.none
       THEN [shape |-> s3, location |-> firstChildOf(toNode(oldParent))]
       ELSE [shape |-> setField(s3, oldPrev, ShapeFieldOffset.nextSibling, oldNext),
             location |-> toNode(oldPrev)]

linkAfter(s, node, prev) ==
    LET newParent == getField(s, prev, ShapeFieldOffset.parent)
        s1 == setField(s, node, ShapeFieldOffset.parent, newParent)
        s2 == IF getField(s1, newParent, ShapeFieldOffset.lastChild) = prev
              THEN setField(s1, newParent, ShapeFieldOffset.lastChild, node) ELSE s1
        next == getField(s2, prev, ShapeFieldOffset.nextSibling)
        s3 == setField(s2, node, ShapeFieldOffset.nextSibling, next)
        s4 == IF next # TreeNodeIndex.none
              THEN setField(s3, next, ShapeFieldOffset.prevSibling, node) ELSE s3
        s5 == setField(s4, node, ShapeFieldOffset.prevSibling, prev)
    IN setField(s5, prev, ShapeFieldOffset.nextSibling, node)

linkFirstChild(s, node, parent) ==
    LET s1 == setField(s, node, ShapeFieldOffset.parent, parent)
        next == getField(s1, parent, ShapeFieldOffset.firstChild)
        s2 == IF next = TreeNodeIndex.none
              THEN setField(s1, parent, ShapeFieldOffset.lastChild, node)
              ELSE setField(s1, next, ShapeFieldOffset.prevSibling, node)
        s3 == setField(s2, node, ShapeFieldOffset.prevSibling, TreeNodeIndex.none)
        s4 == setField(s3, node, ShapeFieldOffset.nextSibling, next)
    IN setField(s4, parent, ShapeFieldOffset.firstChild, node)

\* The five fields of the node at `index`, all none.
Unlinked5(s, index) ==
    [i \in DOMAIN s \cup (index .. index + ShapeFieldOffset.fieldCount - 1) |->
        IF i \in index .. index + ShapeFieldOffset.fieldCount - 1
        THEN TreeNodeIndex.none ELSE s[i]]

TreeConsumers == 1 .. NumConsumers
TreeNodes == 1 .. MaxNodes

\* ConsumerSet: the registered consumers, each once.
addConsumerAgain(set, consumer) == Append(set, consumer)
addConsumer(set, consumer) ==
    IF \E i \in 1 .. Len(set) : set[i] = consumer THEN set ELSE Append(set, consumer)
removeConsumer(set, consumer) == SelectSeq(set, LAMBDA other : other # consumer)
\* forEachConsumer: per consumer, the number of times the callback runs.
forEachConsumer(set) ==
    [consumer \in TreeConsumers |->
        Cardinality({i \in 1 .. Len(set) : set[i] = consumer})]

NoMutation ==
    [op |-> "none", tick |-> 0, node |-> TreeNode.none, oldLocation |-> 0,
     calls |-> [consumer \in TreeConsumers |-> 0],
     registry |-> [consumer \in TreeConsumers |-> [opens |-> 0, closed |-> FALSE]],
     observed |-> <<>>]

\* lastCall before the first call of the writer.
NoRequest ==
    [op |-> "none", node |-> TreeNode.none, location |-> 0, before |-> <<>>, calls |-> 0]

TreeIdle ==
    /\ shape = [i \in 0 .. ShapeFieldOffset.fieldCount - 1 |-> TreeNodeIndex.none]
    /\ handles = {}
    /\ consumers = <<>>
    /\ registry = [consumer \in TreeConsumers |-> [opens |-> 0, closed |-> FALSE]]
    /\ moved = NoMutation
    /\ lastCall = NoRequest

(* ------------------------------ Reference ------------------------------ *)
\* A Reference: row1 and col1 are numbers, row2 and col2 numbers or undefined.
Reference(row1, col1, row2, col2) ==
    [row1 |-> row1, col1 |-> col1, row2 |-> row2, col2 |-> col2]
Coordinates == {Num(n) : n \in 0 .. MaxCoord}
References ==
    {Reference(q[1], q[2], q[3], q[4]) : q \in
        Coordinates \X Coordinates \X (Coordinates \cup {undefined})
            \X (Coordinates \cup {undefined})}

abs(x) == IF x < 0 THEN -x ELSE x

\* fromReference taking the second corner for the far one.
fromReferenceSigned(ref) ==
    LET row1 == ref.row1.n
        col1 == ref.col1.n
        row2 == ref.row2.n
        col2 == ref.col2.n
    IN IF ref.row2 # undefined /\ ref.col2 # undefined
       THEN Range(IF row1 < row2 THEN row1 ELSE row2,
                  IF col1 < col2 THEN col1 ELSE col2,
                  row2 - row1 + 1,
                  col2 - col1 + 1)
       ELSE Range(row1, col1, 1, 1)

fromReference(ref) ==
    LET row1 == ref.row1.n
        col1 == ref.col1.n
        row2 == ref.row2.n
        col2 == ref.col2.n
    IN IF ref.row2 # undefined /\ ref.col2 # undefined
       THEN Range(IF row1 < row2 THEN row1 ELSE row2,
                  IF col1 < col2 THEN col1 ELSE col2,
                  abs(row1 - row2) + 1,
                  abs(col1 - col2) + 1)
       ELSE Range(row1, col1, 1, 1)

RefIdle ==
    /\ reference = Reference(Num(0), Num(0), undefined, undefined)
    /\ made = <<>>

BeyondInit == RuntimeIdle /\ CellIdle /\ TreeIdle /\ RefIdle
OutsideInit == suspensions = <<>> /\ BeyondInit

\* The cells no formula of the session covers are not evaluated in it: they
\* stay Pending.
Init ==
    /\ formulas \in SetsUpTo(Properties \X Ranges, MaxFormulas) \ {{}}
    /\ cells \in [Pos -> Vals \cup {PendingTask(0)}]
    /\ \A p \in Pos \ Covered : isPendingTask(cells[p])
    /\ cache = <<>>
    /\ fibers = <<>>
    /\ last = NoCall
    /\ OutsideInit

\* The host finishes the formula cell at position p: later reads of p yield v.
\* A cell that has a value keeps it for the rest of the session.
Resolve(p, v) ==
    /\ p \in Covered
    /\ isPendingTask(cells[p])
    /\ cells' = [cells EXCEPT ![p] = v]
    /\ last' = NoCall
    /\ UNCHANGED <<cache, fibers, formulas>>

\* rangeSum(range, context) and its like without someTask: a fresh fiber at
\* the range's first cell is run.
RunFresh(call, task, range) ==
    LET handle == Len(fibers) + 1
        fiber == makePendingFunction(task, range, range.tlRow, range.tlCol, newRunner(task))
        r == runFunc(cells, fiber, handle)
    IN /\ Len(fibers) < MaxFibers
       /\ fibers' = Append(fibers, r.fiber)
       /\ cache' = Store(cache, r.fiber, r.ret)
       /\ last' = [call |-> call, property |-> task, ret |-> r.ret, reads |-> r.reads,
                   fiber |-> handle, fresh |-> TRUE,
                   prior |-> Lookup(cache, makeCacheKey(range, task)),
                   cursor |-> <<fiber.row, fiber.column>>, delegated |-> <<>>]
       /\ UNCHANGED <<cells, formulas>>

Aggregate(task, range) == RunFresh("aggregate", task, range)

\* rangeSum(range, context, someTask) and its like: runFunc(someTask).  The
\* host resumes a fiber it holds until the fiber has finished; a finished
\* fiber is dropped (a Fiber is resumable once from its saved cursor).
Resume(handle) ==
    LET fiber == fibers[handle]
        r == runFunc(cells, fiber, handle)
    IN /\ ~fiber.done
       /\ fibers' = [fibers EXCEPT ![handle] = r.fiber]
       /\ cache' = Store(cache, r.fiber, r.ret)
       /\ last' = [call |-> "resume", property |-> fiber.state, ret |-> r.ret,
                   reads |-> r.reads, fiber |-> handle, fresh |-> FALSE,
                   prior |-> Lookup(cache, makeCacheKey(fiber.range, fiber.state)),
                   cursor |-> <<fiber.row, fiber.column>>, delegated |-> <<>>]
       /\ UNCHANGED <<cells, formulas>>

\* A read that runs no fiber returns value after reading the positions reads
\* and delegating the reads delegated.
Return(property, value, reads, prior, delegated) ==
    /\ last' = [call |-> "read", property |-> property, ret |-> value, reads |-> reads,
                fiber |-> 0, fresh |-> FALSE, prior |-> prior, cursor |-> <<0, 0>>,
                delegated |-> delegated]
    /\ UNCHANGED <<cells, cache, fibers, formulas>>

\* The default case of read without the isPendingTask test: a Pending has
\* no reader and is answered like any other object without one.
readDefaultNoPendingTest(receiver, message) ==
    LET anchor == <<receiver.tlRow, receiver.tlCol>>
        value == cells[anchor]
    IN IF typeof(value) = "object" /\ "Readable" \in typeMap(value)
       THEN Return(message, reader(value, message), <<anchor>>, undefined,
                   << <<value, message>> >>)
       ELSE Return(message, errors.unknownField, <<anchor>>, undefined, <<>>)

\* The default case of read never handing the read to the object's reader.
readDefaultNoDelegation(receiver, message) ==
    LET anchor == <<receiver.tlRow, receiver.tlCol>>
        value == cells[anchor]
    IN IF typeof(value) = "object" /\ isPendingTask(value)
       THEN Return(message, value, <<anchor>>, undefined, <<>>)
       ELSE Return(message, errors.unknownField, <<anchor>>, undefined, <<>>)

\* default: of the switch of read: the anchor cell is read, a PendingTask is
\* returned as it is, the read is handed to the reader of an object that
\* has one, and everything else is an unknown field.
readDefault(receiver, message) ==
    LET anchor == <<receiver.tlRow, receiver.tlCol>>
        value == cells[anchor]
    IN IF typeof(value) = "object" /\ isPendingTask(value)
       THEN Return(message, value, <<anchor>>, undefined, <<>>)
       ELSE IF typeof(value) = "object" /\ "Readable" \in typeMap(value)
       THEN Return(message, reader(value, message), <<anchor>>, undefined,
                   << <<value, message>> >>)
       ELSE Return(message, errors.unknownField, <<anchor>>, undefined, <<>>)

\* rangeTypeMap[TypeName.Readable].read(receiver, message, context)
read(receiver, message) ==
    IF message \in DOMAIN aggregations
    THEN LET key == makeCacheKey(receiver, message)
             value == Lookup(cache, key)
             prior == Lookup(cache, makeCacheKey(receiver, aggregations[message]))
         IN IF value # undefined
            THEN Return(aggregations[message], value, <<>>, prior, <<>>)
            ELSE RunFresh("read", aggregations[message], receiver)
    ELSE IF message \in {"row", "ROW"}
    THEN Return("row", Num(receiver.tlRow + 1), <<>>, undefined, <<>>)
    ELSE IF message \in {"column", "COLUMN"}
    THEN Return("column", Num(receiver.tlCol + 1), <<>>, undefined, <<>>)
    ELSE readDefault(receiver, message)

Next ==
    \/ \E p \in Pos, v \in Vals : Resolve(p, v) /\ UNCHANGED outside
    \/ \E f \in formulas :
          f[1] \in FunctionTask /\ Aggregate(f[1], f[2]) /\ UNCHANGED outside
    \/ \E handle \in 1 .. Len(fibers) : Resume(handle) /\ UNCHANGED outside
    \/ \E f \in formulas : \E message \in Spellings(f[1]) :
          read(f[2], message) /\ UNCHANGED outside

Spec == Init /\ [][Next]_vars

\* A session whose formulas read the sum of a range and a property the Range
\* does not know, over a grid whose cells hold numbers, objects and
\* functions.
ReadInit ==
    /\ \E range \in Ranges : formulas = {<<"other", range>>, <<"sum", range>>}
    /\ cells \in [Pos -> CalcValues \cup {PendingTask(0)}]
    /\ \A p \in Pos \ Covered : isPendingTask(cells[p])
    /\ cache = <<>>
    /\ fibers = <<>>
    /\ last = NoCall
    /\ OutsideInit

ReadNext ==
    \/ \E p \in Pos, v \in CalcValues : Resolve(p, v) /\ UNCHANGED outside
    \/ \E f \in formulas :
          f[1] \in FunctionTask /\ Aggregate(f[1], f[2]) /\ UNCHANGED outside
    \/ \E handle \in 1 .. Len(fibers) : Resume(handle) /\ UNCHANGED outside
    \/ \E f \in formulas : \E message \in Spellings(f[1]) :
          read(f[2], message) /\ UNCHANGED outside

ReadSpec == ReadInit /\ [][ReadNext]_vars

\* The values the cells resolve to in a session under the driven host.
LiveVals == {Num(2), Str("a")}

\* A session that reads the sum of a range, under a host that follows the
\* resumption discipline: it
\* resumes a fiber only after the cell that blocked it has resolved, and it
\* does resume it then.  suspensions counts the Pending returns per fiber.
LiveInit ==
    /\ \E range \in Ranges : formulas = {<<"sum", range>>}
    /\ cells \in [Pos -> LiveVals \cup {PendingTask(0)}]
    /\ \A p \in Pos \ Covered : isPendingTask(cells[p])
    /\ cache = <<>>
    /\ fibers = <<>>
    /\ last = NoCall
    /\ suspensions = <<>>
    /\ BeyondInit

\* After a call: the fiber it ran, if any, has one more suspension when the
\* call returned Pending.
Track ==
    LET pending == IF isPendingTask(last'.ret) THEN 1 ELSE 0
    IN /\ suspensions' =
             IF last'.fiber = 0 THEN suspensions
             ELSE IF last'.fresh THEN Append(suspensions, pending)
             ELSE [suspensions EXCEPT ![last'.fiber] = @ + pending]
       /\ UNCHANGED beyond

\* The host re-drives the fiber whose blocking cell has resolved.
DrivenResume(handle) ==
    /\ handle \in 1 .. Len(fibers)
    /\ ~isPendingTask(cells[<<fibers[handle].row, fibers[handle].column>>])
    /\ Resume(handle)
    /\ Track

LiveNext ==
    \/ \E p \in Pos, v \in LiveVals : Resolve(p, v) /\ UNCHANGED outside
    \/ \E f \in formulas : f[1] \in FunctionTask /\ Aggregate(f[1], f[2]) /\ Track
    \/ \E handle \in 1 .. MaxFibers : DrivenResume(handle)
    \/ \E f \in formulas : \E message \in Spellings(f[1]) : read(f[2], message) /\ Track

\* ENABLED <<DrivenResume(handle)>>_vars: the fiber exists, has not
\* finished and its blocking cell has resolved.
DrivenEnabled(handle) ==
    /\ handle \in 1 .. Len(fibers)
    /\ ~fibers[handle].done
    /\ ~isPendingTask(cells[<<fibers[handle].row, fibers[handle].column>>])

\* WF_vars(DrivenResume(handle)), with ENABLED written as DrivenEnabled:
\* the host does resume a fiber whose blocking cell has resolved.
DrivenFairness(handle) ==
    []<>(~DrivenEnabled(handle)) \/ []<><<DrivenResume(handle)>>_vars

LiveSpec ==
    /\ LiveInit
    /\ [][LiveNext]_vars
    /\ \A handle \in 1 .. MaxFibers : DrivenFairness(handle)

(* An expression tree evaluated by the Runtime, one operation at a time. *)
EngineIdle ==
    /\ cells = [p \in Pos |-> PendingTask(0)]
    /\ cache = <<>>
    /\ fibers = <<>>
    /\ formulas = {}
    /\ last = NoCall
    /\ suspensions = <<>>

RuntimeInit ==
    /\ expr \in Trees
    /\ invoked = {}
    /\ sawDelay = FALSE
    /\ EngineIdle
    /\ CellIdle
    /\ TreeIdle
    /\ RefIdle

\* The Runtime operation op is the next one of the evaluation of expr.
Apply(op) ==
    /\ expr.op # "leaf"
    /\ Step(expr).op = op
    /\ expr' = Step(expr).tree
    /\ invoked' = invoked \cup Step(expr).calls
    /\ sawDelay' = (sawDelay \/ Step(expr).delayed)
    /\ UNCHANGED offRuntime

RuntimeNext ==
    \/ Apply("read")
    \/ Apply("ifS")
    \/ Apply("app1")
    \/ Apply("app2")
    \/ Apply("appN")

RuntimeSpec == RuntimeInit /\ [][RuntimeNext]_vars

(* The sheet's cells driven by edits, invalidations and the host scheduler. *)
CellInit ==
    /\ sheet \in [CellIds -> {ValueCell(0), FormulaCell(CalcFlag.Dirty, NoCell, NoCell)}]
    /\ queue = [next |-> Sentinel, prev |-> Sentinel]
    /\ stale = {}
    /\ owed = {}
    /\ running = [c \in CellIds |-> 0]
    /\ EngineIdle
    /\ RuntimeIdle
    /\ TreeIdle
    /\ RefIdle

\* A value cell gets another literal: its flag stays Clean.
EditValue(c) ==
    /\ ~IsFormula(c)
    /\ sheet' = [sheet EXCEPT ![c] = ValueCell(1 - sheet[c].content)]
    /\ UNCHANGED <<queue, stale, owed, running, offCells>>

\* A formula is entered into a value cell: a Formula Cell is created, Dirty.
EnterFormula(c) ==
    /\ ~IsFormula(c)
    /\ sheet' = [sheet EXCEPT ![c] = FormulaCell(CalcFlag.Dirty, NoCell, NoCell)]
    /\ UNCHANGED <<queue, stale, owed, running, offCells>>

\* A formula cell that is not being evaluated is overwritten with a literal:
\* the Formula Cell is destroyed, leaving the queue if it was in it.
EnterValue(c) ==
    /\ IsFormula(c)
    /\ sheet[c].flag # CalcFlag.InCalc
    /\ IF sheet[c].flag = CalcFlag.Enqueued
       THEN /\ sheet' = [Unlinked(c, CalcFlag.Clean) EXCEPT ![c] = ValueCell(0)]
            /\ queue' = UnlinkedQueue(c)
       ELSE /\ sheet' = [sheet EXCEPT ![c] = ValueCell(0)]
            /\ UNCHANGED queue
    /\ stale' = stale \ {c}
    /\ owed' = owed \ {c}
    /\ UNCHANGED <<running, offCells>>

\* A dependency invalidation or a direct edit reaches formula cell c.
Invalidate(c) ==
    /\ IsFormula(c)
    /\ sheet' = [sheet EXCEPT ![c].flag =
                    IF @ = CalcFlag.Clean THEN CalcFlag.Dirty ELSE @]
    /\ stale' = IF sheet[c].flag = CalcFlag.InCalc THEN stale \cup {c} ELSE stale
    /\ owed' = owed \cup {c}
    /\ UNCHANGED <<queue, running, offCells>>

\* The host scheduler adds a Dirty cell at the tail of the queue.
Enqueue(c) ==
    /\ HasFlag(c, CalcFlag.Dirty)
    /\ sheet' = [cell \in CellIds |->
                    IF cell = c THEN FormulaCell(CalcFlag.Enqueued, queue.prev, Sentinel)
                    ELSE IF cell = queue.prev THEN [sheet[cell] EXCEPT !.next = c]
                    ELSE sheet[cell]]
    /\ queue' = [next |-> IF queue.prev = Sentinel THEN c ELSE queue.next, prev |-> c]
    /\ UNCHANGED <<stale, owed, running, offCells>>

\* Dequeue leaving the links of the cell as they were.
DequeueKeepLinks(c) ==
    /\ queue.next = c
    /\ HasFlag(c, CalcFlag.Enqueued)
    /\ sheet' = [Unlinked(c, CalcFlag.InCalc) EXCEPT
                    ![c].prev = sheet[c].prev, ![c].next = sheet[c].next]
    /\ queue' = UnlinkedQueue(c)
    /\ stale' = stale \ {c}
    /\ owed' = owed \ {c}
    /\ running' = [running EXCEPT ![c] = @ + 1]
    /\ UNCHANGED offCells

\* The host scheduler takes the cell at the head of the queue and starts
\* evaluating its formula: links cleared, flag InCalc.
Dequeue(c) ==
    /\ queue.next = c
    /\ HasFlag(c, CalcFlag.Enqueued)
    /\ sheet' = Unlinked(c, CalcFlag.InCalc)
    /\ queue' = UnlinkedQueue(c)
    /\ stale' = stale \ {c}
    /\ owed' = owed \ {c}
    /\ running' = [running EXCEPT ![c] = @ + 1]
    /\ UNCHANGED offCells

\* Completion making the cell Clean whatever arrived during the computation.
CompleteClean(c) ==
    /\ HasFlag(c, CalcFlag.InCalc)
    /\ sheet' = [sheet EXCEPT ![c].flag = CalcFlag.Clean]
    /\ running' = [running EXCEPT ![c] = @ - 1]
    /\ UNCHANGED <<queue, stale, owed, offCells>>

\* The evaluation of cell c completes with a final value: the cell is Clean,
\* or Dirty when an invalidation arrived during the computation.
Complete(c) ==
    /\ HasFlag(c, CalcFlag.InCalc)
    /\ sheet' = [sheet EXCEPT ![c].flag =
                    IF c \in stale THEN CalcFlag.Dirty ELSE CalcFlag.Clean]
    /\ running' = [running EXCEPT ![c] = @ - 1]
    /\ UNCHANGED <<queue, stale, owed, offCells>>

CellNext ==
    \/ \E c \in CellIds : EditValue(c)
    \/ \E c \in CellIds : EnterFormula(c)
    \/ \E c \in CellIds : EnterValue(c)
    \/ \E c \in CellIds : Invalidate(c)
    \/ \E c \in CellIds : Enqueue(c)
    \/ \E c \in CellIds : Dequeue(c)
    \/ \E c \in CellIds : Complete(c)

\* The host scheduler does enqueue a Dirty cell.
CellSpec ==
    /\ CellInit
    /\ [][CellNext]_vars
    /\ \A c \in CellIds : WF_vars(Enqueue(c))

(* A TreeShape driven by its producer and writer interfaces. *)
TreeInit ==
    /\ TreeIdle
    /\ EngineIdle
    /\ RuntimeIdle
    /\ CellIdle
    /\ RefIdle

openTree(consumer) ==
    /\ registry[consumer].opens < MaxOpens
    /\ consumers' = addConsumer(consumers, consumer)
    /\ registry' = [registry EXCEPT ![consumer] = [opens |-> @.opens + 1, closed |-> FALSE]]
    /\ UNCHANGED <<shape, handles, moved, offTree>>

closeTree(consumer) ==
    /\ consumers' = removeConsumer(consumers, consumer)
    /\ registry' = [registry EXCEPT ![consumer] = [opens |-> 0, closed |-> TRUE]]
    /\ UNCHANGED <<shape, handles, moved, offTree>>

createNode(node) ==
    /\ node \notin handles
    /\ handles' = handles \cup {node}
    /\ shape' = Unlinked5(shape, toIndex(node))
    /\ UNCHANGED <<consumers, registry, moved, offTree>>

\* The callbacks of one mutation: what each consumer is called with, how
\* often, and the shape it finds when called (tick tells one mutation from
\* the next).
Notified(op, node, oldLocation, found) ==
    [op |-> op, tick |-> 1 - moved.tick, node |-> node, oldLocation |-> oldLocation,
     calls |-> forEachConsumer(consumers), registry |-> registry, observed |-> found]

\* moveNode calling the consumers before the node is linked at its place.
moveNodeNotifyFirst(node, location) ==
    LET index == toIndex(node)
        u == unlink(shape, index)
    IN /\ shape' = IF location > 0
                   THEN linkAfter(u.shape, index, toIndex(location))
                   ELSE linkFirstChild(u.shape, index, toIndex(-location))
       /\ moved' = Notified("moveNode", node, u.location, u.shape)
       /\ UNCHANGED <<handles, consumers, registry, offTree>>

moveNode(node, location) ==
    LET index == toIndex(node)
        u == unlink(shape, index)
    IN /\ shape' = IF location > 0
                   THEN linkAfter(u.shape, index, toIndex(location))
                   ELSE linkFirstChild(u.shape, index, toIndex(-location))
       /\ moved' = Notified("moveNode", node, u.location, shape')
       /\ UNCHANGED <<handles, consumers, registry, offTree>>

\* The shape removeNode leaves, and the callbacks it makes.
removeNode(node) ==
    LET index == toIndex(node)
        u == unlink(shape, index)
        s1 == setField(u.shape, index, ShapeFieldOffset.parent, TreeNodeIndex.none)
        s2 == setField(s1, index, ShapeFieldOffset.nextSibling, TreeNodeIndex.none)
    IN /\ shape' = setField(s2, index, ShapeFieldOffset.prevSibling, TreeNodeIndex.none)
       /\ moved' = Notified("removeNode", node, u.location, shape')

RemoveNode(node) ==
    /\ removeNode(node)
    /\ UNCHANGED <<handles, consumers, registry, offTree>>

deleteNode(node) ==
    /\ removeNode(node)
    /\ handles' = handles \ {node}
    /\ UNCHANGED <<consumers, registry, offTree>>

getParent(node) == toNode(getField(shape, toIndex(node), ShapeFieldOffset.parent))
getFirstChild(node) == toNode(getField(shape, toIndex(node), ShapeFieldOffset.firstChild))
parentOfLocation(location) == IF location > 0 THEN getParent(location) ELSE -location

\* The readers getParent .. getPrevSibling on a given shape: the node that
\* the field at `offset` of the node names.
link(s, node, offset) == toNode(getField(s, toIndex(node), offset))

\* The node and its ancestors, following getParent at most `steps` times.
RECURSIVE Lineage(_, _)
Lineage(node, steps) ==
    IF node = TreeNode.none \/ steps = 0 THEN {}
    ELSE {node} \cup Lineage(getParent(node), steps - 1)

\* The locations a host moves the node to: after an existing node that has
\* a parent, or first child of an existing node or of the root, and not
\* inside the node's own subtree.
Locations(node) ==
    {location \in handles \cup {firstChildOf(parent) : parent \in handles \cup {TreeNode.root}} :
        /\ location # afterNode(node)
        /\ parentOfLocation(location) # TreeNode.none
        /\ node \notin Lineage(parentOfLocation(location), MaxNodes + 1)}

TreeNext ==
    \/ \E consumer \in TreeConsumers : openTree(consumer) /\ UNCHANGED asked
    \/ \E consumer \in TreeConsumers : closeTree(consumer) /\ UNCHANGED asked
    \/ \E node \in TreeNodes : createNode(node) /\ UNCHANGED asked
    \/ \E node \in handles : \E location \in Locations(node) :
          moveNode(node, location) /\ UNCHANGED asked
    \/ \E node \in handles : RemoveNode(node) /\ UNCHANGED asked
    \/ \E node \in {leaf \in handles : getFirstChild(leaf) = TreeNode.none} :
          deleteNode(node) /\ UNCHANGED asked

TreeSpec == TreeInit /\ [][TreeNext]_vars

\* A TreeShape under a host that makes at most MaxCalls calls of createNode,
\* moveNode, removeNode and deleteNode, with any node it holds and any
\* location of the nodes it holds; a deleted handle is handed out again.
Asked(op, node, location) ==
    /\ lastCall.calls < MaxCalls
    /\ lastCall' = [op |-> op, node |-> node, location |-> location, before |-> shape,
                    calls |-> lastCall.calls + 1]

AllLocations ==
    handles \cup {firstChildOf(parent) : parent \in handles \cup {TreeNode.root}}

\* A consumer that was told nodeMoved(node, oldLocation) of a node that had
\* a parent moves the node back at once: moveNode(node, oldLocation).
\* lastCall keeps the shape from before the call that is undone.
Undo ==
    /\ lastCall.op \in {"moveNode", "removeNode"}
    /\ \E consumer \in TreeConsumers : moved.calls[consumer] > 0
    /\ link(lastCall.before, lastCall.node, ShapeFieldOffset.parent) # TreeNode.none
    /\ moveNode(lastCall.node, moved.oldLocation)
    /\ lastCall' = [lastCall EXCEPT !.op = "undo", !.location = moved.oldLocation]

WriterNext ==
    \/ \E node \in TreeNodes : createNode(node) /\ Asked("createNode", node, 0)
    \/ \E node \in handles : \E location \in AllLocations :
          moveNode(node, location) /\ Asked("moveNode", node, location)
    \/ \E node \in handles : RemoveNode(node) /\ Asked("removeNode", node, 0)
    \/ \E node \in handles : deleteNode(node) /\ Asked("deleteNode", node, 0)

WriterSpec == TreeInit /\ [][WriterNext]_vars

\* The same host with one consumer, which opens the tree once and may undo
\* a move it is told of.
UndoNext ==
    \/ \E consumer \in TreeConsumers :
          consumers = <<>> /\ openTree(consumer) /\ UNCHANGED asked
    \/ WriterNext
    \/ Undo

UndoSpec == TreeInit /\ [][UndoNext]_vars

\* A session with two formulas, each the sum or the count of a range
\* anchored at the first cell: two aggregations that share the operation,
\* the geometry, or neither.
PairFormulas == {"sum", "count"} \X {range \in Ranges : range.tlRow = 0 /\ range.tlCol = 0}
PairInit ==
    /\ formulas \in {{f, g} : f, g \in PairFormulas} \ {{f} : f \in PairFormulas}
    /\ cells \in [Pos -> LiveVals \cup {PendingTask(0)}]
    /\ \A p \in Pos \ Covered : isPendingTask(cells[p])
    /\ cache = <<>>
    /\ fibers = <<>>
    /\ last = NoCall
    /\ OutsideInit

PairNext ==
    \/ \E p \in Pos, v \in LiveVals : Resolve(p, v) /\ UNCHANGED outside
    \/ \E f \in formulas : Aggregate(f[1], f[2]) /\ UNCHANGED outside
    \/ \E handle \in 1 .. Len(fibers) : Resume(handle) /\ UNCHANGED outside
    \/ \E f \in formulas : \E message \in Spellings(f[1]) :
          read(f[2], message) /\ UNCHANGED outside

PairSpec == PairInit /\ [][PairNext]_vars

(* References turned into Ranges. *)
RefInit ==
    /\ reference \in References
    /\ made = <<>>
    /\ EngineIdle
    /\ RuntimeIdle
    /\ CellIdle
    /\ TreeIdle

FromReference ==
    /\ made = <<>>
    /\ made' = <<fromReference(reference)>>
    /\ UNCHANGED <<reference, offRefs>>

\* The next formula names another Reference.
NextReference ==
    /\ made # <<>>
    /\ reference' \in References
    /\ made' = <<>>
    /\ UNCHANGED offRefs

RefNext == FromReference \/ NextReference

RefSpec == RefInit /\ [][RefNext]_vars

(* --------------------- reference definitions --------------------------- *)
\* The positions of a range in row-major order.
RowMajor(range) ==
    [k \in 1 .. range.height * range.width |->
        <<range.tlRow + ((k - 1) \div range.width),
          range.tlCol + ((k - 1) % range.width)>>]

\* The index of position p in the sequence seq (0 when it is not in it).
IndexOf(seq, p) ==
    IF \E k \in 1 .. Len(seq) : seq[k] = p
    THEN CHOOSE k \in 1 .. Len(seq) : seq[k] = p
    ELSE 0

IsFinal(entry) == entry.kind \in {"number", "string", "error"}

KeyOf(fiber) == makeCacheKey(fiber.range, fiber.state)

\* The values the cells at the positions of seq hold.
ValuesAt(seq) == [k \in 1 .. Len(seq) |-> cells[seq[k]]]

\* The numeric cells among a set of positions, their sum and their product.
NumbersIn(ps) == {p \in ps : cells[p].kind = "number"}
RECURSIVE SumOver(_)
SumOver(ps) ==
    IF ps = {} THEN 0
    ELSE LET p == CHOOSE q \in ps : TRUE IN cells[p].n + SumOver(ps \ {p})
RECURSIVE ProductOver(_)
ProductOver(ps) ==
    IF ps = {} THEN 1
    ELSE LET p == CHOOSE q \in ps : TRUE IN cells[p].n * ProductOver(ps \ {p})

\* The strings among the values of a sequence of positions, concatenated.
RECURSIVE StringsOf(_)
StringsOf(seq) ==
    IF seq = <<>> THEN ""
    ELSE LET x == cells[Head(seq)]
         IN (IF x.kind = "string" THEN x.s ELSE "") \o StringsOf(Tail(seq))

ToSet(seq) == {seq[k] : k \in 1 .. Len(seq)}

\* One uninterrupted fold of a task over a sequence of values.
RECURSIVE FoldFrom(_, _, _, _)
FoldFrom(task, acc, values, k) ==
    IF k > Len(values) THEN acc
    ELSE FoldFrom(task, run(task, acc, values[k]), values, k + 1)
Uninterrupted(task, range) ==
    finish(task, FoldFrom(task, newRunner(task), ValuesAt(RowMajor(range)), 1))

\* The decimal numeral of a number below ten, and the cache key the
\* documentation gives for a task and a range.
Numeral(n) == <<"0", "1", "2", "3", "4", "5", "6", "7", "8", "9">>[n + 1]
DocumentedKey(task, range) ==
    task \o ";" \o Numeral(range.tlRow) \o ";" \o Numeral(range.tlCol)
         \o ";" \o Numeral(range.height) \o ";" \o Numeral(range.width)

Handles == 1 .. Len(fibers)

\* The last call ran a fiber through runFunc.
RanFiber == last.fiber # 0
LastFiber == fibers[last.fiber]

\* The property names the Range answers itself, and whether a record of a
\* call is a read of a property that is none of them.
Matched == FunctionTask \cup {"row", "column"}
IsUnmatchedRead(call) == call.call = "read" /\ call.property \notin Matched
\* The anchor position of the range on which the formulas read a property.
AnchorOf(property) ==
    LET receiver == (CHOOSE f \in formulas : f[1] = property)[2]
    IN <<receiver.tlRow, receiver.tlCol>>

(* ------------------------------- claims -------------------------------- *)

\* C1: a read of an aggregation through the Range's Readable read, made
\* while the cache entry of that operation and range geometry is Pending,
\* returns that cached Pending with the same fiber, creates no new fiber and
\* reads no cell.
C1_OneFoldInFlight ==
    (last.call = "read" /\ isPendingTask(last.prior))
        => (last.ret = last.prior /\ ~last.fresh /\ last.reads = <<>>)

\* C2: a resumed fiber continues at exactly its saved cursor: the call reads
\* the saved cell first and then the following cells in row-major order (the
\* rest of the saved row, then the later rows from the range's first column),
\* and the cells handed to the step so far are the row-major order of the
\* range up to the cursor, each exactly once.
C2_ResumeFromCursor ==
    (last.call = "resume")
        => LET f == LastFiber
               rm == RowMajor(f.range)
               from == IndexOf(rm, last.cursor)
               fed == Len(f.visited)
           IN /\ from >= 1
              /\ f.visited = SubSeq(rm, 1, fed)
              /\ last.reads = SubSeq(rm, from, from + Len(last.reads) - 1)
              /\ Len(last.reads) >= 1
              /\ IF isPendingTask(last.ret)
                 THEN from + Len(last.reads) - 1 = fed + 1
                 ELSE from + Len(last.reads) - 1 = fed /\ fed = Len(rm)

\* C2 witness: a fiber over a range of two rows and two columns that was
\* suspended in the middle of its first row is resumed and finishes: it reads
\* the rest of that row and then the second row from the first column.
C2_Witness ==
    /\ last.call = "resume"
    /\ IsFinal(last.ret)
    /\ last.cursor = <<0, 1>>
    /\ last.reads = << <<0, 1>>, <<1, 0>>, <<1, 1>> >>
    /\ LastFiber.visited = << <<0, 0>>, <<0, 1>>, <<1, 0>>, <<1, 1>> >>

\* C3: once the cache key of an operation and range geometry holds a final
\* value, a later read of that aggregation on that range returns that value,
\* reads no cell and runs no fiber.
C3_IdempotentFinal ==
    (last.call = "read" /\ IsFinal(last.prior))
        => (last.ret = last.prior /\ last.reads = <<>> /\ last.fiber = 0)

\* C4: a cache key that holds a final value keeps that value in every step
\* (a read, a fresh aggregation call, a resumption): it is never replaced by
\* another value or by a Pending, and no entry is ever removed; an entry
\* changes its kind only from Pending to a final value.
C4_Step ==
    \A key \in DOMAIN cache :
        /\ key \in DOMAIN cache'
        /\ IsFinal(cache[key]) => cache'[key] = cache[key]
        /\ isPendingTask(cache[key]) => (isPendingTask(cache'[key]) \/ IsFinal(cache'[key]))
C5_Suspension ==
    (RanFiber /\ isPendingTask(last.ret))
        => LET f == LastFiber
               rm == RowMajor(f.range)
               from == IndexOf(rm, last.cursor)
               at == IndexOf(rm, <<f.row, f.column>>)
           IN /\ last.ret = PendingTask(last.fiber)
              /\ Lookup(cache, DocumentedKey(f.state, f.range)) = last.ret
              /\ ~f.done
              /\ from >= 1 /\ at >= from
              /\ isPendingTask(cells[rm[at]])
              /\ \A k \in from .. at - 1 : ~isPendingTask(cells[rm[k]])
              /\ last.reads = SubSeq(rm, from, at)
              /\ f.visited = SubSeq(rm, 1, at - 1)
              /\ f.runner = FoldFrom(f.state, newRunner(f.state), ValuesAt(f.visited), 1)

\* C5 witness: a resumed fiber reads on from its cursor in the first row and
\* is suspended again at a cell of the second row.
C5_Witness ==
    /\ last.call = "resume"
    /\ isPendingTask(last.ret)
    /\ last.cursor[1] = 0
    /\ LastFiber.row = 1
    /\ Len(last.reads) >= 2

\* C6: the final value of a fold that was suspended and resumed any number
\* of times is the value of one uninterrupted row-major fold over the cells
\* of the range, every cell having been handed to the step exactly once, and
\* it is stored under the key <op>;<tlRow>;<tlCol>;<height>;<width>.
C6_SuspendedEqualsUninterrupted ==
    \A h \in Handles :
        fibers[h].done
            => LET f == fibers[h]
               IN /\ f.visited = RowMajor(f.range)
                  /\ Lookup(cache, DocumentedKey(f.state, f.range))
                        = Uninterrupted(f.state, f.range)
                  /\ (last.fiber = h => last.ret = Uninterrupted(f.state, f.range))

\* C6 witness: sum over the column [2, Pending] was suspended with the
\* cursor on the second cell; the cell resolved to -1 and the resumed fold
\* returned 1, stored under "sum;0;0;2;1".
C6_Witness ==
    /\ last.call = "resume"
    /\ LastFiber.state = "sum"
    /\ LastFiber.range = Range(0, 0, 2, 1)
    /\ last.cursor = <<1, 0>>
    /\ last.ret = Num(1)
    /\ Lookup(cache, "sum;0;0;2;1") = Num(1)

\* C7: the upper-case alias and the lower-case name of an aggregation use
\* the same cache slot: a read of the aggregation under either spelling,
\* made when the slot of the operation and the range holds a Pending or a
\* final value, returns that entry and starts no fresh fold.
C7_AliasSharesSlot ==
    (last.call = "read" /\ last.prior # undefined)
        => (~last.fresh /\ last.ret = last.prior)

\* C8: a finished average holds the division-by-zero error value in the
\* cache when the range has no numeric cell, and otherwise the sum of the
\* numeric cells divided by their count.
C8_AverageByZero ==
    \A h \in Handles :
        (fibers[h].done /\ fibers[h].state = "average")
            => LET f == fibers[h]
                   nums == NumbersIn(Positions(f.range))
                   v == Lookup(cache, KeyOf(f))
               IN IF nums = {} THEN v = errors.div0
                  ELSE /\ v.kind = "number"
                       /\ v.d >= 1
                       /\ v.n * Cardinality(nums) = SumOver(nums) * v.d

\* C8 witness: an average over a range with cells but no number has finished
\* with the error value.
C8_Witness ==
    \E h \in Handles :
        /\ fibers[h].done
        /\ fibers[h].state = "average"
        /\ fibers[h].range.height * fibers[h].range.width >= 2
        /\ Lookup(cache, KeyOf(fibers[h])) = errors.div0

\* C9: the steps ignore values of the wrong type: at every moment the
\* accumulator of sum is the sum of the numbers scanned so far (0 if none),
\* that of product their product (1 if none), that of count their count,
\* that of average their sum and count, and that of concat the
\* concatenation of the strings scanned so far (empty if none); a finished
\* fold over a range with no value of the right type yields the initial
\* accumulator.
C9_WrongTypeIgnored ==
    \A h \in Handles :
        LET f == fibers[h]
            nums == NumbersIn(ToSet(f.visited))
            v == Lookup(cache, KeyOf(f))
        IN /\ f.state = "sum" => f.runner.total = SumOver(nums)
           /\ f.state = "product" => f.runner.total = ProductOver(nums)
           /\ f.state = "count" => f.runner.total = Cardinality(nums)
           /\ f.state = "average"
                => (f.runner.total = SumOver(nums) /\ f.runner.count = Cardinality(nums))
           /\ f.state = "concat" => f.runner.str = StringsOf(f.visited)
           /\ (f.done /\ nums = {} /\ f.state \in {"sum", "count"}) => v = Num(0)
           /\ (f.done /\ nums = {} /\ f.state = "product") => v = Num(1)
           /\ (f.done /\ f.state = "concat" /\ \A p \in ToSet(f.visited) : cells[p].kind # "string")
                => v = Str("")

\* C9 witness: a count over a range that holds a string and a number has
\* finished.
C9_Witness ==
    \E h \in Handles :
        /\ fibers[h].done
        /\ fibers[h].state = "count"
        /\ \E p, q \in ToSet(fibers[h].visited) :
              cells[p].kind = "string" /\ cells[q].kind = "number"
        /\ Lookup(cache, KeyOf(fibers[h])) = Num(1)

\* C10: a finished max (min) holds the greatest (least) numeric cell value of
\* the range, and 0 when the range has no numeric cell.
C10_MaxMin ==
    \A h \in Handles :
        (fibers[h].done /\ fibers[h].state \in {"max", "min"})
            => LET f == fibers[h]
                   nums == NumbersIn(Positions(f.range))
                   v == Lookup(cache, KeyOf(f))
               IN IF nums = {} THEN v = Num(0)
                  ELSE /\ v.kind = "number" /\ v.d = 1
                       /\ \E p \in nums : cells[p].n = v.n
                       /\ f.state = "max" => \A p \in nums : cells[p].n <= v.n
                       /\ f.state = "min" => \A p \in nums : cells[p].n >= v.n

\* C10 witness: a max over a range whose numeric cells are all negative has
\* finished with -1, and a range holding 2 before -1 has finished with 2.
C10_Witness ==
    \E h \in Handles :
        /\ fibers[h].done
        /\ fibers[h].state = "max"
        /\ fibers[h].range = Range(0, 0, 1, 2)
        /\ cells[<<0, 0>>] = Num(-1)
        /\ cells[<<0, 1>>] = Str("a")
        /\ Lookup(cache, KeyOf(fibers[h])) = Num(-1)

\* C11: a read of a property that is neither an aggregation nor row/column,
\* on a Range whose anchor cell is Pending, returns that cell's Pending
\* itself (the same fiber, not the unknown-field error), reads the anchor
\* once, hands nothing to a reader and leaves the cache as it was.
C11_Step ==
    (IsUnmatchedRead(last') /\ isPendingTask(cells[AnchorOf(last'.property)]))
        => /\ last'.ret = cells[AnchorOf(last'.property)]
           /\ last'.ret.kind = "Pending"
           /\ last'.reads = <<AnchorOf(last'.property)>>
           /\ last'.delegated = <<>>
           /\ cache' = cache
C11_PendingUntouched == [][C11_Step]_vars

\* C11 witness: the unknown property was read while the anchor was Pending
\* and the cache held the Pending of the suspended sum (fiber 1); the read
\* returned the anchor's Pending (fiber 0).
C11_Witness ==
    /\ IsUnmatchedRead(last)
    /\ last.ret = PendingTask(0)
    /\ \E key \in DOMAIN cache : cache[key] = PendingTask(1)

\* C12: a read of an unmatched property on a Range whose anchor cell is
\* resolved reads the anchor exactly once; when the anchor is an object
\* with Readable the read is handed once to that object's reader with the
\* same property and its answer is returned; when the anchor is a
\* primitive, a function or an object without Readable the result is the
\* unknown-field error value.
C12_AnchorDelegation ==
    IsUnmatchedRead(last)
        => LET anchor == AnchorOf(last.property)
               value == cells[anchor]
           IN /\ last.reads = <<anchor>>
              /\ (value.kind = "object" /\ value.s = "record")
                    => /\ last.delegated = << <<value, last.property>> >>
                       /\ last.ret = Str("record." \o last.property)
              /\ (value.kind \in {"number", "string", "function"}
                        \/ (value.kind = "object" /\ value.s # "record"))
                    => /\ last.delegated = <<>>
                       /\ last.ret = errors.unknownField

\* C12 witness: the anchor holds a Readable record and the read of the
\* unknown property was answered by the record's reader.
C12_Witness ==
    /\ IsUnmatchedRead(last)
    /\ cells[AnchorOf(last.property)] = Obj("record")
    /\ last.ret = Str("record.other")
    /\ Len(last.delegated) = 1

\* The index of a fiber's cursor in the row-major order of its range, and
\* the number of cells of its range.
CursorIndex(fiber) == IndexOf(RowMajor(fiber.range), <<fiber.row, fiber.column>>)
CellCount(fiber) == fiber.range.height * fiber.range.width

\* C13 (each call): a runFunc call returns a final value or a Pending after
\* reading at most the cells from the cursor to the end of the range, and no
\* fiber has been suspended more often than its range has cells.
C13_Call ==
    /\ RanFiber
          => /\ IsFinal(last.ret) \/ isPendingTask(last.ret)
             /\ Len(last.reads)
                    <= CellCount(LastFiber)
                         - IndexOf(RowMajor(LastFiber.range), last.cursor) + 1
    /\ \A h \in Handles : suspensions[h] <= CellCount(fibers[h])

\* C13 (each step): the cursor of a fiber never moves backward in row-major
\* order, and a resumed fiber that is suspended again is suspended at a
\* later cell.
C13_Forward ==
    \A h \in Handles :
        /\ CursorIndex(fibers'[h]) >= CursorIndex(fibers[h])
        /\ (fibers'[h] # fibers[h] /\ ~fibers'[h].done)
              => CursorIndex(fibers'[h]) > CursorIndex(fibers[h])

\* A fiber all of whose cells have resolved.
AllResolved(h) ==
    /\ h \in Handles
    /\ \A p \in Positions(fibers[h].range) : ~isPendingTask(cells[p])

\* C13: under a host that resumes a fiber each time its blocking cell has
\* resolved, with resolved cells staying resolved: every call returns a
\* final value or a Pending after reading at most the remaining cells, the
\* cursor only moves forward, a fiber is suspended at most as often as its
\* range has cells, and a fiber whose cells have all resolved reaches its
\* final value.
C13_FoldFinishes ==
    /\ []C13_Call
    /\ [][C13_Forward]_vars
    /\ \A h \in 1 .. MaxFibers : AllResolved(h) ~> (h \in Handles /\ fibers[h].done)

\* C13 witness: a sum over the whole grid has finished after being suspended
\* at two different cells.
C13_Witness ==
    \E h \in Handles :
        /\ fibers[h].done
        /\ CellCount(fibers[h]) = NumRows * NumCols
        /\ suspensions[h] >= 2

\* C14: once an operand handed to a Runtime operation (read, ifS, app1,
\* app2, appN) was Delay, the evaluated tree is Delay, not a value, a
\* fallback or an error; and no operator, reader, continuation or function
\* was called with a Delay operand.
C14_SuspensionTransparency ==
    /\ (sawDelay /\ expr.op = "leaf") => isDelayed(expr.val)
    /\ \A c \in invoked : \A i \in 1 .. Len(c[2]) : c[2][i].kind # "Pending"

\* C14 witness: a tree in which an operator was applied to a number before
\* another operation met Delay has been evaluated to Delay.
C14_Witness ==
    /\ expr = Leaf(Delay)
    /\ sawDelay
    /\ <<"fn", <<Num(2)>> >> \in invoked

\* C15 (each state): an invalidated cell is not Clean before its next
\* evaluation has started, and a cell has an evaluation in progress exactly
\* when it is InCalc, and never more than one.
C15_Kept ==
    \A c \in CellIds :
        /\ c \in owed => (IsFormula(c) /\ sheet[c].flag # CalcFlag.Clean)
        /\ running[c] <= 1
        /\ running[c] = 1 <=> HasFlag(c, CalcFlag.InCalc)

\* C15 (each step): when the computation of a cell invalidated while InCalc
\* completes, the cell is Dirty; and an evaluation starts only on a cell
\* that is Enqueued.
C15_Completion ==
    \A c \in CellIds :
        /\ (HasFlag(c, CalcFlag.InCalc) /\ c \in owed /\ sheet'[c].flag # CalcFlag.InCalc)
              => sheet'[c].flag = CalcFlag.Dirty
        /\ running'[c] > running[c] => HasFlag(c, CalcFlag.Enqueued)

\* C15: a Formula Cell invalidated while InCalc is Dirty, not Clean, when
\* the stale computation completes, and is enqueued again; an invalidation
\* is never dropped; a cell is never evaluated while it is InCalc.
C15_InvalidatedInCalc ==
    /\ []C15_Kept
    /\ [][C15_Completion]_vars
    /\ \A c \in CellIds : HasFlag(c, CalcFlag.Dirty) ~> ~HasFlag(c, CalcFlag.Dirty)

\* C15 witness: a cell invalidated during its computation is in the queue
\* again after the computation completed.
C15_Witness ==
    \E c \in CellIds :
        /\ HasFlag(c, CalcFlag.Enqueued)
        /\ c \in stale
        /\ c \in owed

\* C16: a Formula Cell has prev and next set exactly when its flag is
\* Enqueued (a dequeued cell has both cleared), and a Value Cell is Clean
\* and has no links.
C16_LinksIffEnqueued ==
    \A c \in CellIds :
        IF IsFormula(c)
        THEN /\ sheet[c].flag = CalcFlag.Enqueued
                  => (sheet[c].prev # NoCell /\ sheet[c].next # NoCell)
             /\ sheet[c].flag # CalcFlag.Enqueued
                  => (sheet[c].prev = NoCell /\ sheet[c].next = NoCell)
        ELSE /\ sheet[c].flag = CalcFlag.Clean
             /\ sheet[c].prev = NoCell /\ sheet[c].next = NoCell

\* C16 witness: a cell taken from the head of a queue of two is InCalc with
\* its links cleared while the other cell is still linked to the sentinel
\* on both sides, next to an edited value cell.
C16_Witness ==
    \E c, e, v \in CellIds :
        /\ HasFlag(c, CalcFlag.InCalc)
        /\ sheet[c].prev = NoCell /\ sheet[c].next = NoCell
        /\ HasFlag(e, CalcFlag.Enqueued)
        /\ sheet[e].prev = Sentinel /\ sheet[e].next = Sentinel
        /\ ~IsFormula(v) /\ sheet[v].content = 1

\* C17: opening a consumer that is already registered does not duplicate
\* the subscription: whatever the number of openTree calls, a mutation
\* calls a registered consumer exactly once, and a consumer that was closed
\* (or never opened) not at all.
C17_OpenIdempotent ==
    moved.op # "none" =>
        \A consumer \in TreeConsumers :
            moved.calls[consumer] = IF moved.registry[consumer].opens > 0 THEN 1 ELSE 0

\* C17 witness: a mutation called a consumer opened MaxOpens times once
\* and a consumer closed before it not at all.
C17_Witness ==
    /\ moved.op # "none"
    /\ \E consumer, other \in TreeConsumers :
          /\ moved.registry[consumer].opens = MaxOpens
          /\ moved.calls[consumer] = 1
          /\ moved.registry[other].closed
          /\ moved.calls[other] = 0

\* C18 (each step): a mutation calls nodeMoved once on each consumer
\* registered when it is made and on no other, with the node moved and, for
\* a node that had a parent, the location the node had before; the shape
\* the consumers find is the shape the call leaves; and nothing but a
\* moveNode, removeNode or deleteNode call makes a callback.
C18_Mutation ==
    IF moved' # moved
    THEN /\ moved'.op \in {"moveNode", "removeNode"}
         /\ moved'.node \in handles
         /\ \A consumer \in TreeConsumers :
               moved'.calls[consumer] =
                   IF \E i \in 1 .. Len(consumers) : consumers[i] = consumer THEN 1 ELSE 0
         /\ consumers' = consumers
         /\ getParent(moved'.node) # TreeNode.none
               => moved'.oldLocation = beforeNode(shape, moved'.node)
         /\ moved'.observed = shape'
    ELSE shape' # shape => (handles' # handles /\ handles \subseteq handles')

\* C18: TreeShape notifies synchronously and once per mutation.
C18_NotifiesOnce == [][C18_Mutation]_vars

\* C18 witness: a moveNode that made a node the child of its previous
\* sibling called the one registered consumer with that sibling's location,
\* after the other consumer was closed.
C18_Witness ==
    /\ moved.op = "moveNode"
    /\ moved.oldLocation > 0
    /\ getParent(moved.node) = moved.oldLocation
    /\ \E consumer, other \in TreeConsumers :
          /\ moved.calls[consumer] = 1
          /\ moved.registry[other].closed
          /\ moved.calls[other] = 0

\* The least and the greatest of a non-empty set of numbers.
Least(S) == CHOOSE m \in S : \A x \in S : m <= x
Greatest(S) == CHOOSE m \in S : \A x \in S : x <= m

\* C19: the Range made from a Reference with both corners has the least row
\* and the least column of the corners as tlRow and tlCol and the inclusive
\* extents as height and width, both at least 1, whatever the order of the
\* corners; a Reference without row2 or without col2 makes the 1x1 Range at
\* (row1, col1).
C19_WellFormedRange ==
    made # <<>> =>
        LET range == made[1]
            rows == {reference.row1.n, reference.row2.n}
            cols == {reference.col1.n, reference.col2.n}
        IN IF reference.row2 # undefined /\ reference.col2 # undefined
           THEN /\ range.tlRow = Least(rows)
                /\ range.tlCol = Least(cols)
                /\ range.height = Cardinality(Least(rows) .. Greatest(rows))
                /\ range.width = Cardinality(Least(cols) .. Greatest(cols))
                /\ range.height >= 1
                /\ range.width >= 1
           ELSE range = Range(reference.row1.n, reference.col1.n, 1, 1)

\* C19 witness: a Reference whose second corner is above and right of the
\* first made the Range from the second corner's row and the first
\* corner's column.
C19_Witness ==
    /\ reference = Reference(Num(MaxCoord), Num(0), Num(0), Num(1))
    /\ made = <<Range(0, 0, MaxCoord + 1, 2)>>

\* The aggregation requests a read can make: a name of the aggregations
\* table and a range; and the cache key read consults for a request.
Requests == (DOMAIN aggregations) \X Ranges
RequestKey(request) == makeCacheKey(request[2], request[1])

\* Requests with the same key have the same operation and the same geometry.
SlotsApart ==
    \A a, b \in Requests :
        RequestKey(a) = RequestKey(b)
            => (aggregations[a[1]] = aggregations[b[1]] /\ a[2] = b[2])
\* Requests with the same operation and the same geometry have the same key.
SlotsShared ==
    \A a, b \in Requests :
        (aggregations[a[1]] = aggregations[b[1]] /\ a[2] = b[2])
            => RequestKey(a) = RequestKey(b)

\* The cache holds entries of the session's formulas only, and the entry
\* under the key of an operation and a range is a Pending of a fold of that
\* operation over that range, or the value of that fold.
SlotOwned ==
    /\ DOMAIN cache \subseteq {makeCacheKey(f[2], f[1]) : f \in formulas}
    /\ \A f \in formulas :
          LET entry == Lookup(cache, makeCacheKey(f[2], f[1]))
          IN /\ isPendingTask(entry)
                  => /\ entry.fiber \in Handles
                     /\ fibers[entry.fiber].state = f[1]
                     /\ fibers[entry.fiber].range = f[2]
             /\ IsFinal(entry) => entry = Uninterrupted(f[1], f[2])
\* A read answered from the cache returns the entry of its own operation
\* and range.
ReadOwn ==
    (last.call = "read" /\ last.property \in FunctionTask /\ ~last.fresh)
        => (last.prior # undefined /\ last.ret = last.prior)
\* A step changes the entry of an operation and a range only by running a
\* fold of that operation over that range.
SlotStep ==
    \A f \in formulas :
        Lookup(cache', makeCacheKey(f[2], f[1])) # Lookup(cache, makeCacheKey(f[2], f[1]))
            => /\ last'.fiber # 0
               /\ fibers'[last'.fiber].state = f[1]
               /\ fibers'[last'.fiber].range = f[2]

\* C20: two aggregation requests have the same cache key if and only if
\* they have the same operation and the same range geometry, and a fold
\* over one operation and range never overwrites or returns the cached
\* Pending or final value of another.
C20_SlotsNeverCollide ==
    /\ [](SlotsApart /\ SlotsShared /\ SlotOwned /\ ReadOwn)
    /\ [][SlotStep]_vars

\* C20, the requests of one spelling apart: the same key if and only if the
\* same name and the same geometry, with the entries never mixed.
C20_SpelledSlotsApart ==
    /\ [](SlotsApart /\ SlotOwned /\ ReadOwn)
    /\ [][SlotStep]_vars

\* Two folds of one session, over ranges that differ only by the exchange
\* of height and width, finished with different values, each under its key.
PairFilled ==
    /\ Lookup(cache, "sum;0;0;1;2") = Num(4)
    /\ Lookup(cache, "sum;0;0;2;1") = Num(2)


\* ---------------------------------------------------------------------
\* The links of the TreeShape.

\* Following the parent links from the node reaches TreeNode.none within
\* `steps` steps.
RECURSIVE ReachesNone(_, _, _)
ReachesNone(s, node, steps) ==
    IF node = TreeNode.none THEN TRUE
    ELSE IF steps = 0 THEN FALSE
    ELSE ReachesNone(s, link(s, node, ShapeFieldOffset.parent), steps - 1)

\* C24: after any sequence of moveNode calls with any node and any location
\* of existing nodes, following getParent from any node reaches
\* TreeNode.none in finitely many steps (among MaxNodes nodes and the root,
\* within MaxNodes + 1 steps: no node is its own ancestor), and no node is
\* its own next or previous sibling.
C24_StaysATree ==
    \A node \in handles \cup {TreeNode.root} :
        /\ ReachesNone(shape, node, MaxNodes + 1)
        /\ link(shape, node, ShapeFieldOffset.nextSibling) # node
        /\ link(shape, node, ShapeFieldOffset.prevSibling) # node


\* The five fields of a node.
ShapeFields == 0 .. ShapeFieldOffset.fieldCount - 1

\* No other node the tree holds, nor the root, names the node in any field.
Unreferenced(s, node) ==
    \A other \in (handles \cup {TreeNode.root}) \ {node} :
        \A offset \in ShapeFields : link(s, other, offset) # node

\* C25: after deleteNode(n) no remaining node has n as its parent,
\* firstChild, lastChild, nextSibling or prevSibling, also when n had
\* children, so that when createNode hands the handle out again nothing
\* points at the new node.
C25_NoDanglingReferences ==
    lastCall.op \in {"deleteNode", "createNode"} => Unreferenced(shape, lastCall.node)


\* The nodes reached from the node by nextSibling, the node first, giving
\* up after `steps` nodes.
RECURSIVE Chain(_, _, _)
Chain(s, node, steps) ==
    IF node = TreeNode.none \/ steps = 0 THEN <<>>
    ELSE <<node>> \o Chain(s, link(s, node, ShapeFieldOffset.nextSibling), steps - 1)

\* The children of the parent in order: from getFirstChild by getNextSibling.
Children(s, parent) == Chain(s, link(s, parent, ShapeFieldOffset.firstChild), MaxNodes + 1)

Members(seq) == {seq[i] : i \in DOMAIN seq}

\* The links of the shape agree for the nodes held and the root.
Consistent(s, nodes) ==
    /\ \A parent \in nodes \cup {TreeNode.root} :
          LET kids == Children(s, parent)
          IN /\ Members(kids) = {node \in nodes : link(s, node, ShapeFieldOffset.parent) = parent}
             /\ Len(kids) = Cardinality(Members(kids))
             /\ kids # <<>> =>
                   /\ link(s, kids[1], ShapeFieldOffset.prevSibling) = TreeNode.none
                   /\ kids[Len(kids)] = link(s, parent, ShapeFieldOffset.lastChild)
                   /\ link(s, kids[Len(kids)], ShapeFieldOffset.nextSibling) = TreeNode.none
    /\ \A a, b \in nodes :
          link(s, a, ShapeFieldOffset.nextSibling) = b
              <=> link(s, b, ShapeFieldOffset.prevSibling) = a

\* C21: after any sequence of createNode, moveNode, removeNode and
\* deleteNode calls, for every parent the children reached from firstChild
\* by nextSibling are exactly the nodes whose parent it is, the first has
\* no prevSibling, the last is lastChild and has no nextSibling, and
\* nextSibling(a) = b if and only if prevSibling(b) = a.
C21_LinksConsistent == Consistent(shape, handles)


\* The node and its ancestors in a shape, following the parent at most
\* `steps` times.
RECURSIVE Ancestry(_, _, _)
Ancestry(s, node, steps) ==
    IF node = TreeNode.none \/ steps = 0 THEN {}
    ELSE {node} \cup Ancestry(s, link(s, node, ShapeFieldOffset.parent), steps - 1)

\* The parent a location names in a shape (TreeShape.parentOfLocation).
ParentAt(s, location) ==
    IF location > 0 THEN link(s, location, ShapeFieldOffset.parent) ELSE -location

\* A shape that is a forest with agreeing links, in which every parent is a
\* node held or the root, every field has been written, a node without a
\* first child has no last child, and a node without a parent has no
\* siblings.
Orderly(s, nodes) ==
    /\ Consistent(s, nodes)
    /\ \A node \in nodes \cup {TreeNode.root} :
          /\ link(s, node, ShapeFieldOffset.parent) \in nodes \cup {TreeNode.root, TreeNode.none}
          /\ \A offset \in ShapeFields : getField(s, toIndex(node), offset) # Hole
          /\ link(s, node, ShapeFieldOffset.firstChild) = TreeNode.none =>
                link(s, node, ShapeFieldOffset.lastChild) = TreeNode.none
          /\ ReachesNone(s, node, MaxNodes + 1)
          /\ link(s, node, ShapeFieldOffset.nextSibling) # node
          /\ link(s, node, ShapeFieldOffset.prevSibling) # node
          /\ link(s, node, ShapeFieldOffset.parent) = TreeNode.none =>
                /\ link(s, node, ShapeFieldOffset.nextSibling) = TreeNode.none
                /\ link(s, node, ShapeFieldOffset.prevSibling) = TreeNode.none

Without(seq, node) == SelectSeq(seq, LAMBDA kid : kid # node)

\* The last call was moveNode of a node of an orderly tree to a location
\* that has a parent, which is neither the node nor one of its descendants.
MovedInOrder ==
    /\ lastCall.op = "moveNode"
    /\ Orderly(lastCall.before, handles)
    /\ ParentAt(lastCall.before, lastCall.location) # TreeNode.none
    /\ lastCall.node \notin
          Ancestry(lastCall.before, ParentAt(lastCall.before, lastCall.location), MaxNodes + 1)

\* C22: after moveNode(n, firstChildOf(p)) n is the first child of p, after
\* moveNode(n, lastChildOf(p)) n is the last child of p, after
\* moveNode(n, afterNode(m)) n is the next sibling of m and has m's parent,
\* after moveNode(n, beforeNode(m)) n is the previous sibling of m; the
\* order of the other children of every parent and the children of n are as
\* before. (Stated for an orderly tree and a location outside n's subtree
\* that has a parent; m is another node.)
C22_PlacedAtLocation ==
    MovedInOrder =>
        LET n == lastCall.node
            location == lastCall.location
            before == lastCall.before
            parents == (handles \cup {TreeNode.root}) \ {n}
            others == handles \ {n}
        IN /\ \A p \in parents : location = firstChildOf(p) =>
                 /\ link(shape, p, ShapeFieldOffset.firstChild) = n
                 /\ link(shape, n, ShapeFieldOffset.parent) = p
           /\ \A p \in parents : location = lastChildOf(before, p) =>
                 /\ link(shape, p, ShapeFieldOffset.lastChild) = n
                 /\ link(shape, n, ShapeFieldOffset.parent) = p
           /\ \A m \in others : location = afterNode(m) =>
                 /\ link(shape, m, ShapeFieldOffset.nextSibling) = n
                 /\ link(shape, n, ShapeFieldOffset.parent)
                        = link(shape, m, ShapeFieldOffset.parent)
           /\ \A m \in others :
                 /\ link(before, m, ShapeFieldOffset.parent) # TreeNode.none
                 /\ location = beforeNode(before, m)
                 => link(shape, m, ShapeFieldOffset.prevSibling) = n
           /\ \A p \in handles \cup {TreeNode.root} :
                 Without(Children(shape, p), n) = Without(Children(before, p), n)
           /\ Children(shape, n) = Children(before, n)


\* Every parent, sibling and child link of the nodes held and of the root
\* is the same in the two shapes.
SameLinks(s, t) ==
    \A node \in handles \cup {TreeNode.root} :
        \A offset \in ShapeFields : link(s, node, offset) = link(t, node, offset)

\* The call that was undone was made on a node that had a parent.
UndoneAttached == lastCall.op = "undo"

\* C23: for an attached node n, when moveNode(n, loc) or removeNode(n) has
\* reported oldLocation to consumers and moveNode(n, oldLocation) is called
\* at once, every parent, sibling and child link of the tree has the value
\* it had before the first call.
C23_UndoRestores == UndoneAttached => SameLinks(shape, lastCall.before)

\* The same for a node of an orderly tree, whatever the location of the
\* first call: the whole shape is as before.
C23_UndoRestoresOrderly ==
    UndoneAttached /\ Orderly(lastCall.before, handles) => shape = lastCall.before

\* A move in order to a location other than after the node itself places
\* the node as C22 says and leaves the tree orderly.
C22_PlacedElsewhere ==
    MovedInOrder /\ lastCall.location # afterNode(lastCall.node)
    => C22_PlacedAtLocation /\ Orderly(shape, handles)

\* deleteNode of a node without children in an orderly tree leaves nothing
\* that names the node.
C25_LeafDeleted ==
    /\ lastCall.op = "deleteNode"
    /\ Orderly(lastCall.before, handles \cup {lastCall.node})
    /\ link(lastCall.before, lastCall.node, ShapeFieldOffset.firstChild) = TreeNode.none
    => Unreferenced(shape, lastCall.node)

====
